---- MODULE Spec2Model ----
(***************************************************************************)
(* SearchReportAgent: the research / reflection orchestrator              *)
(* (src/src/agent.py), the report state it evolves (src/src/state/        *)
(* state.py) and the stage nodes that write to it (src/src/nodes/).        *)
(*                                                                         *)
(* One agent object is modelled.  Its operations that change the agent are *)
(* research() and load_state(); save_state() and the files _save_report    *)
(* writes change nothing of the agent, what load_state may find on disk is *)
(* the set Documents.  research() is sequential code that                  *)
(* blocks on the text-generation and the search collaborator; it is        *)
(* modelled statement by statement with a program counter, one action per  *)
(* collaborator call or state mutation, because the state is observable    *)
(* between them (get_progress_summary) and an exception leaves the state   *)
(* as the last completed statement left it.                                *)
(*                                                                         *)
(* Python list index i (0-based) is position i + 1 of a TLA+ sequence.     *)
(***************************************************************************)
EXTENDS Integers, Sequences, FiniteSets, TLC

(***************************************************************************)
(* Bounds of the model                                                     *)
(***************************************************************************)
\* largest value of config.max_reflections that is explored
MaxReflections == 1
\* largest value of config.max_search_results that is explored
MaxSearchResults == 1
\* longest section list the structure planner's model output holds
MaxPlanned == 2
\* sections the state may hold in total (a further research() appends)
MaxSections == 2
\* readings of the clock that are followed; the agent stops at the last
MaxClock == 6
\* longest text (in tokens) extract_clean_response is called with
MaxTextLen == 4
\* longest content (in characters) truncate_content is called with
MaxContentLen == 6
\* largest max_length truncate_content is called with
MaxLimit == 5

(***************************************************************************)
(* Values                                                                  *)
(***************************************************************************)
\* Config.max_paragraphs when nothing sets it
DefaultMaxParagraphs == 6
\* Config.max_content_length when nothing sets it
DefaultMaxContentLength == 20000
NoText == "no_text"
\* queries handed to research()
Queries == {"q1"}
\* search queries the query generators return
SearchQueries == {"sq"}
\* texts process_output of the two summary nodes may return; the empty
\* text is the cleaned output of a model that answered with nothing
Summaries == {"", "s1"}
\* documents ReportFormattingNode.process_output may return (non-empty)
Reports == {"# R"}

\* dict.get(key, default)
Get(d, key, default) == IF key \in DOMAIN d THEN d[key] ELSE default

(***************************************************************************)
(* state.py: Search, Research, Paragraph, State                            *)
(***************************************************************************)
\* Search(query=..., url=..., title=..., content=..., score=...) with the
\* default timestamp
Search(query, result, ts) ==
    [query |-> query,
     url |-> Get(result, "url", ""),
     title |-> Get(result, "title", ""),
     content |-> Get(result, "content", ""),
     score |-> Get(result, "score", "None"),
     timestamp |-> ts]

\* Research()
NewResearch ==
    [search_history |-> <<>>, latest_summary |-> "",
     reflection_iteration |-> 0, is_finished |-> FALSE]

\* mutant of add_search: the history is overwritten by the new record
add_search_overwrite(research, search) ==
    [research EXCEPT !.search_history = <<search>>]

\* Research.add_search
add_search(research, search) ==
    [research EXCEPT !.search_history = Append(@, search)]

\* Research.add_search_results: one Search per result, in result order
RECURSIVE add_search_results(_, _, _, _)
add_search_results(research, query, results, ts) ==
    IF results = <<>> THEN research
    ELSE add_search_results(add_search(research, Search(query, Head(results), ts)),
                            query, Tail(results), ts)

\* Research.increment_reflection_iteration
increment_reflection_iteration(research) ==
    [research EXCEPT !.reflection_iteration = @ + 1]

\* mutant of mark_completed: the flag is left as it is
mark_completed_skip(research) == research

\* Research.mark_completed
mark_completed(research) == [research EXCEPT !.is_finished = TRUE]

\* Paragraph(title=title, content=content, order=order)
NewParagraph(title, content, order) ==
    [title |-> title, content |-> content, research |-> NewResearch,
     order |-> order]

\* State() as the constructor leaves it at time ts
NewState(ts) ==
    [query |-> "", report_title |-> "", paragraphs |-> <<>>,
     final_report |-> "", is_completed |-> FALSE,
     created_at |-> ts, updated_at |-> ts]

\* State.update_timestamp
update_timestamp(st, ts) == [st EXCEPT !.updated_at = ts]

\* State.add_paragraph
add_paragraph(st, title, content, ts) ==
    update_timestamp(
        [st EXCEPT !.paragraphs =
            Append(@, NewParagraph(title, content, Len(st.paragraphs)))],
        ts)

\* State.mark_completed
state_mark_completed(st, ts) ==
    update_timestamp([st EXCEPT !.is_completed = TRUE], ts)

\* Paragraph.is_finished
paragraph_is_finished(p) ==
    p.research.is_finished /\ p.research.latest_summary # ""

\* State.get_completed_paragraphs_count
get_completed_paragraphs_count(st) ==
    Cardinality({pos \in 1..Len(st.paragraphs) :
                    paragraph_is_finished(st.paragraphs[pos])})

\* State.get_total_paragraphs_count
get_total_paragraphs_count(st) == Len(st.paragraphs)

\* State.is_all_paragraphs_completed: False for an empty list of sections
is_all_paragraphs_completed(st) ==
    IF st.paragraphs # <<>>
    THEN \A pos \in 1..Len(st.paragraphs) :
            paragraph_is_finished(st.paragraphs[pos])
    ELSE FALSE

\* State.get_progress_summary; the percentage completed / total * 100 is
\* kept as the fraction num / den
get_progress_summary(st) ==
    LET completed == get_completed_paragraphs_count(st)
        total == get_total_paragraphs_count(st)
    IN  [total_paragraphs |-> total,
         completed_paragraphs |-> completed,
         progress_percentage |->
            IF total > 0 THEN [num |-> completed * 100, den |-> total]
            ELSE [num |-> 0, den |-> 1],
         is_completed |-> st.is_completed,
         created_at |-> st.created_at,
         updated_at |-> st.updated_at]

(***************************************************************************)
(* state.py: to_dict / from_dict                                           *)
(***************************************************************************)
SearchToDict(s) ==
    [query |-> s.query, url |-> s.url, title |-> s.title,
     content |-> s.content, score |-> s.score, timestamp |-> s.timestamp]

\* mutant of Search.from_dict: the record takes the time of loading
SearchFromDictRenewed(d, ts) ==
    [query |-> Get(d, "query", ""), url |-> Get(d, "url", ""),
     title |-> Get(d, "title", ""), content |-> Get(d, "content", ""),
     score |-> Get(d, "score", "None"),
     timestamp |-> ts]

SearchFromDict(d, ts) ==
    [query |-> Get(d, "query", ""), url |-> Get(d, "url", ""),
     title |-> Get(d, "title", ""), content |-> Get(d, "content", ""),
     score |-> Get(d, "score", "None"),
     timestamp |-> Get(d, "timestamp", ts)]

ResearchToDict(r) ==
    [search_history |->
        [j \in 1..Len(r.search_history) |-> SearchToDict(r.search_history[j])],
     latest_summary |-> r.latest_summary,
     reflection_iteration |-> r.reflection_iteration,
     is_finished |-> r.is_finished]

ResearchFromDict(d, ts) ==
    LET h == Get(d, "search_history", <<>>) IN
    [search_history |-> [j \in 1..Len(h) |-> SearchFromDict(h[j], ts)],
     latest_summary |-> Get(d, "latest_summary", ""),
     reflection_iteration |-> Get(d, "reflection_iteration", 0),
     is_finished |-> Get(d, "is_finished", FALSE)]

ParagraphToDict(p) ==
    [title |-> p.title, content |-> p.content,
     research |-> ResearchToDict(p.research), order |-> p.order]

\* an absent or empty "research" value gives Research()
ParagraphFromDict(d, ts) ==
    LET research_data == Get(d, "research", <<>>) IN
    [title |-> Get(d, "title", ""),
     content |-> Get(d, "content", ""),
     research |-> IF DOMAIN research_data # {}
                  THEN ResearchFromDict(research_data, ts) ELSE NewResearch,
     order |-> Get(d, "order", 0)]

StateToDict(st) ==
    [query |-> st.query, report_title |-> st.report_title,
     paragraphs |->
        [j \in 1..Len(st.paragraphs) |-> ParagraphToDict(st.paragraphs[j])],
     final_report |-> st.final_report, is_completed |-> st.is_completed,
     created_at |-> st.created_at, updated_at |-> st.updated_at]

StateFromDict(d, ts) ==
    LET ps == Get(d, "paragraphs", <<>>) IN
    [query |-> Get(d, "query", ""),
     report_title |-> Get(d, "report_title", ""),
     paragraphs |-> [j \in 1..Len(ps) |-> ParagraphFromDict(ps[j], ts)],
     final_report |-> Get(d, "final_report", ""),
     is_completed |-> Get(d, "is_completed", FALSE),
     created_at |-> Get(d, "created_at", ts),
     updated_at |-> Get(d, "updated_at", ts)]

(***************************************************************************)
(* Texts and JSON values                                                   *)
(*                                                                         *)
(* A text of the model is a sequence of tokens; whitespace between tokens  *)
(* is not kept, so str.strip() changes nothing of a token sequence.  The   *)
(* separators ',' of JSON are not tokens, a key token stands for a quoted  *)
(* key and its ':'.                                                        *)
(***************************************************************************)
Tok(t, v) == [t |-> t, v |-> v]
LBrace == Tok("punct", "{")
RBrace == Tok("punct", "}")
LBracket == Tok("punct", "[")
RBracket == Tok("punct", "]")
\* ```json, ```markdown and the bare ```
FenceJson == Tok("fence", "json")
FenceMarkdown == Tok("fence", "markdown")
Fence == Tok("fence", "")
\* a word of prose; the words json and markdown are what is left of a
\* tagged fence once its backticks are removed
Word(w) == Tok("word", w)
\* "reasoning:", "explanation:" and the like
Label(l) == Tok("label", l)
Key(k) == Tok("key", k)
StrTok(x) == Tok("str", x)
NumTok(n) == Tok("num", n)
\* markdown: level '#' characters and a space, the opening of a heading
\* line, and a '#' with a word right after it, which opens no heading
Heading(level) == Tok("heading", level)
Tag(w) == Tok("tag", w)

\* the values json.loads returns
Str(x) == [type |-> "string", value |-> x]
Num(n) == [type |-> "number", value |-> n]
Array(items) == [type |-> "array", items |-> items]
Object(members) == [type |-> "object", members |-> members]
\* the dict without keys
NoMembers == [k \in {} |-> Str("")]

\* d[key] = value on a dict
WithMember(members, key, value) ==
    [k \in DOMAIN members \cup {key} |->
        IF k = key THEN value ELSE members[k]]

\* text without every occurrence of the tokens in removed
RECURSIVE Without(_, _)
Without(text, removed) ==
    IF text = <<>> THEN <<>>
    ELSE IF Head(text) \in removed THEN Without(Tail(text), removed)
    ELSE <<Head(text)>> \o Without(Tail(text), removed)

\* re.sub(r'```\s*$', '', text): a fence that ends the text
WithoutFinalFence(text) ==
    IF text # <<>> /\ text[Len(text)] = Fence
    THEN SubSeq(text, 1, Len(text) - 1)
    ELSE text

\* re.sub(r'```', '', text): the backticks of every fence go, the tag of a
\* tagged fence stays as a word
RECURSIVE WithoutBackticks(_)
WithoutBackticks(text) ==
    IF text = <<>> THEN <<>>
    ELSE LET tok == Head(text) IN
         (IF tok.t # "fence" THEN <<tok>>
          ELSE IF tok.v = "" THEN <<>>
          ELSE <<Word(tok.v)>>)
         \o WithoutBackticks(Tail(text))

\* clean_json_tags
clean_json_tags(text) ==
    WithoutBackticks(WithoutFinalFence(Without(text, {FenceJson})))

\* clean_markdown_tags
clean_markdown_tags(text) ==
    WithoutBackticks(WithoutFinalFence(Without(text, {FenceMarkdown})))

IsOpen(tok) == tok = LBrace \/ tok = LBracket

\* index of the first '{' or '[' at or after index i, 0 when there is none
RECURSIVE FirstOpen(_, _)
FirstOpen(text, i) ==
    IF i > Len(text) THEN 0
    ELSE IF IsOpen(text[i]) THEN i
    ELSE FirstOpen(text, i + 1)

\* re.sub(r'(?:label)[:]\s*.*?(?=\{|\[)', '', text): every stretch from
\* one of the labels up to the next '{' or '[' is removed
RECURSIVE WithoutLabelled(_, _)
WithoutLabelled(text, labels) ==
    IF text = <<>> THEN <<>>
    ELSE IF Head(text).t = "label" /\ Head(text).v \in labels
            /\ FirstOpen(text, 1) # 0
         THEN WithoutLabelled(SubSeq(text, FirstOpen(text, 1), Len(text)), labels)
         ELSE <<Head(text)>> \o WithoutLabelled(Tail(text), labels)

\* re.sub(r'^.*?(?=\{|\[)', '', text): what precedes the first '{' or '['
\* is removed.  When the text starts with '{' or '[' that match is empty,
\* and re.sub (Python 3.7 and later) goes on to the next match at the same
\* place, which is not empty: it ends before the second '{' or '['
WithoutLead(text) ==
    LET first == FirstOpen(text, 1)
        second == FirstOpen(text, 2)
    IN IF first = 0 THEN text
       ELSE IF first > 1 THEN SubSeq(text, first, Len(text))
       ELSE IF second = 0 THEN text
       ELSE SubSeq(text, second, Len(text))

\* remove_reasoning_from_output: the three patterns in turn
remove_reasoning_from_output(text) ==
    WithoutLead(
        WithoutLabelled(
            WithoutLabelled(text, {"reasoning", "thinking", "analyzing"}),
            {"explanation", "explanation of"}))

\* json.loads reads one value that starts at index i: ok, the value and
\* the index after it, or not ok (JSONDecodeError)
NoParse == [ok |-> FALSE, value |-> Num(0), next |-> 0]

RECURSIVE ParseValue(_, _)
RECURSIVE ParseItems(_, _, _)
RECURSIVE ParseMembers(_, _, _)
ParseValue(text, i) ==
    IF i > Len(text) THEN NoParse
    ELSE LET tok == text[i] IN
         IF tok.t = "num" THEN [ok |-> TRUE, value |-> Num(tok.v), next |-> i + 1]
         ELSE IF tok.t = "str" THEN [ok |-> TRUE, value |-> Str(tok.v), next |-> i + 1]
         ELSE IF tok = LBracket THEN ParseItems(text, i + 1, <<>>)
         ELSE IF tok = LBrace THEN ParseMembers(text, i + 1, NoMembers)
         ELSE NoParse

\* the items of an array up to its ']'
ParseItems(text, i, items) ==
    IF i > Len(text) THEN NoParse
    ELSE IF text[i] = RBracket
         THEN [ok |-> TRUE, value |-> Array(items), next |-> i + 1]
         ELSE LET item == ParseValue(text, i) IN
              IF item.ok THEN ParseItems(text, item.next, Append(items, item.value))
              ELSE NoParse

\* the members of an object up to its '}'; a repeated key keeps the last
ParseMembers(text, i, members) ==
    IF i > Len(text) THEN NoParse
    ELSE IF text[i] = RBrace
         THEN [ok |-> TRUE, value |-> Object(members), next |-> i + 1]
         ELSE IF text[i].t # "key" THEN NoParse
         ELSE LET member == ParseValue(text, i + 1) IN
              IF member.ok
              THEN ParseMembers(text, member.next,
                                WithMember(members, text[i].v, member.value))
              ELSE NoParse

\* json.loads(text): the whole text is one value, or JSONDecodeError
json_loads(text) ==
    LET parsed == ParseValue(text, 1) IN
    IF parsed.ok /\ parsed.next = Len(text) + 1
    THEN [ok |-> TRUE, value |-> parsed.value]
    ELSE [ok |-> FALSE, value |-> Num(0)]

\* index of the last occurrence of tok at or before index i, 0 when none
RECURSIVE LastIndex(_, _, _)
LastIndex(text, tok, i) ==
    IF i = 0 THEN 0
    ELSE IF text[i] = tok THEN i
    ELSE LastIndex(text, tok, i - 1)

\* index of the first occurrence of tok at or after index i, 0 when none
RECURSIVE FirstIndex(_, _, _)
FirstIndex(text, tok, i) ==
    IF i > Len(text) THEN 0
    ELSE IF text[i] = tok THEN i
    ELSE FirstIndex(text, tok, i + 1)

\* re.search(open + r'.*' + close, text, re.DOTALL): from the first open
\* to the last close after it; no match is the empty text, which is no JSON
Between(text, open, close) ==
    LET first == FirstIndex(text, open, 1)
        last == LastIndex(text, close, Len(text))
    IN IF first # 0 /\ last > first THEN SubSeq(text, first, last) ELSE <<>>

\* the tagged failure record of extract_clean_response
FailureRecord(cleaned_text) ==
    Object([error |-> Str("Failed to parse JSON response"),
            raw_text |-> cleaned_text])

\* extract_clean_response
extract_clean_response(text) ==
    LET cleaned_text == remove_reasoning_from_output(clean_json_tags(text))
        whole == json_loads(cleaned_text)
        object == json_loads(Between(cleaned_text, LBrace, RBrace))
        array == json_loads(Between(cleaned_text, LBracket, RBracket))
    IN IF whole.ok THEN whole.value
       ELSE IF object.ok THEN object.value
       ELSE IF array.ok THEN array.value
       ELSE FailureRecord(cleaned_text)

(***************************************************************************)
(* utils/text_processing.py: truncate_content on strings, which are        *)
(* sequences of characters here                                            *)
(***************************************************************************)
\* "..."
Ellipsis == <<".", ".", ".">>

\* str.rfind(' '): the 0-based index of the last space, -1 when there is
\* none
RECURSIVE RFindSpace(_, _)
RFindSpace(content, i) ==
    IF i = 0 THEN -1
    ELSE IF content[i] = " " THEN i - 1
    ELSE RFindSpace(content, i - 1)

\* truncate_content(content, max_length); last_space > max_length * 0.8 is
\* compared in tenths
truncate_content(content, max_length) ==
    IF Len(content) <= max_length THEN content
    ELSE LET truncated == SubSeq(content, 1, max_length)
             last_space == RFindSpace(truncated, Len(truncated))
         IN IF 10 * last_space > 8 * max_length
            THEN SubSeq(truncated, 1, last_space) \o Ellipsis
            ELSE truncated \o Ellipsis

\* format_search_results_for_prompt: the content of every result, truncated
format_search_results_for_prompt(results, max_length) ==
    [j \in 1..Len(results) |->
        truncate_content(Get(results[j], "content", <<>>), max_length)]

(***************************************************************************)
(* nodes/report_structure_node.py: the structure planner                   *)
(***************************************************************************)
\* f"Paragraph {i + 1}" for the 0-based position i of an entry
DefaultTitle(i) ==
    CASE i = 0 -> "Paragraph 1" [] i = 1 -> "Paragraph 2"
      [] i = 2 -> "Paragraph 3" [] i = 3 -> "Paragraph 4"
      [] OTHER -> "Paragraph n"

\* str.strip() on the texts the planner's entries carry
Strip(s) == IF s = " " THEN "" ELSE s

\* the entries of the list the planner's model answers with, as the model
\* writes them
PlanEntries ==
    {<<LBrace, Key("title"), StrTok("A"), Key("content"), StrTok("ca"), RBrace>>}

\* the texts of a sequence of texts, one after the other
RECURSIVE Flatten(_)
Flatten(texts) ==
    IF texts = <<>> THEN <<>> ELSE Head(texts) \o Flatten(Tail(texts))

\* a JSON list of the entries inside a ```json fence
FencedList(entries) ==
    <<FenceJson, LBracket>> \o Flatten(entries) \o <<RBracket, Fence>>

RECURSIVE SeqsUpTo(_, _)
SeqsUpTo(S, n) ==
    IF n = 0 THEN {<<>>}
    ELSE LET shorter == SeqsUpTo(S, n - 1) IN
         shorter \cup {Append(q, e) : q \in {r \in shorter : Len(r) = n - 1}, e \in S}

\* what the text-generation collaborator answers to the planner during
\* research(): a fenced list of entries, or prose
StructureOutputs ==
    {FencedList(entries) : entries \in SeqsUpTo(PlanEntries, MaxPlanned)}
        \cup {<<Word("w")>>}

\* the f-strings that embed the query, one text per query
OverviewOf(q) ==
    IF q = "q1" THEN "The overall overview and background introduction of 'q1'"
    ELSE "The overall overview and background introduction of 'q2'"
AnalysisOf(q) ==
    IF q = "q1" THEN "Deep analysis of the related content of 'q1'"
    ELSE "Deep analysis of the related content of 'q2'"
ReportTitleOf(q) ==
    IF q = "q1" THEN "Research Report of 'q1'" ELSE "Research Report of 'q2'"

\* the fixed two-entry skeleton of the except branch
FallbackStructure(q) ==
    <<[title |-> "Overview", content |-> OverviewOf(q)],
      [title |-> "Detailed Analysis", content |-> AnalysisOf(q)]>>

\* "error" in value: a key of a dict, an item of a list; TypeError for a
\* number (raises is TRUE)
ErrorIn(value) ==
    IF value.type = "object"
    THEN [raises |-> FALSE, found |-> "error" \in DOMAIN value.members]
    ELSE IF value.type = "array"
    THEN [raises |-> FALSE,
          found |-> \E i \in 1..Len(value.items) : value.items[i] = Str("error")]
    ELSE IF value.type = "string"
    THEN [raises |-> FALSE, found |-> value.value = "error"]
    ELSE [raises |-> TRUE, found |-> FALSE]

\* the start of process_output of the planner and of the two query
\* generators: the output is cleaned, read by json.loads and, when that
\* fails, by extract_clean_response, whose failure record raises ValueError
DecodeOutput(output) ==
    LET cleaned_output == clean_json_tags(remove_reasoning_from_output(output))
        loaded == json_loads(cleaned_output)
        extracted == extract_clean_response(cleaned_output)
    IN IF loaded.ok THEN [ok |-> TRUE, value |-> loaded.value]
       ELSE IF ErrorIn(extracted).raises \/ ErrorIn(extracted).found
       THEN [ok |-> FALSE, value |-> Num(0)]
       ELSE [ok |-> TRUE, value |-> extracted]

\* the validation loop of process_output over the entries i .. len - 1:
\* an entry that is no dict is skipped, a missing key gets its default,
\* and .strip() raises AttributeError (ok is FALSE) on what is no string
RECURSIVE ValidatedFrom(_, _)
ValidatedFrom(entries, i) ==
    IF i >= Len(entries) THEN [ok |-> TRUE, structure |-> <<>>]
    ELSE LET paragraph == entries[i + 1]
             rest == ValidatedFrom(entries, i + 1)
         IN IF paragraph.type # "object" THEN rest
            ELSE LET title == Get(paragraph.members, "title", Str(DefaultTitle(i)))
                     content == Get(paragraph.members, "content", Str(""))
                 IN IF title.type # "string" \/ content.type # "string" \/ ~rest.ok
                    THEN [ok |-> FALSE, structure |-> <<>>]
                    ELSE [ok |-> TRUE,
                          structure |->
                            <<[title |-> Strip(title.value),
                               content |-> Strip(content.value)]>>
                            \o rest.structure]

\* ReportStructureNode.process_output
StructureProcessOutput(out, q) ==
    LET decoded == DecodeOutput(out)
        validated == ValidatedFrom(decoded.value.items, 0)
    IN IF ~decoded.ok THEN FallbackStructure(q)
       ELSE IF decoded.value.type # "array" THEN FallbackStructure(q)
       ELSE IF ~validated.ok THEN FallbackStructure(q)
       ELSE validated.structure

\* the add_paragraph loop of ReportStructureNode.mutate_state
RECURSIVE AddParagraphs(_, _, _)
AddParagraphs(st, structure, ts) ==
    IF structure = <<>> THEN st
    ELSE AddParagraphs(
            add_paragraph(st, Head(structure).title, Head(structure).content, ts),
            Tail(structure), ts)

\* ReportStructureNode.mutate_state after a successful run()
StructureMutateState(st, q, structure, ts) ==
    LET titled == [st EXCEPT !.query = q,
                             !.report_title =
                                 IF @ = "" THEN ReportTitleOf(q) ELSE @]
    IN AddParagraphs(titled, structure, ts)

(***************************************************************************)
(* nodes/search_node.py: the two search-query generators                   *)
(***************************************************************************)
\* bool(value): "", 0, [] and {} are false
Truthy(value) ==
    IF value.type = "string" THEN value.value # ""
    ELSE IF value.type = "number" THEN value.value # 0
    ELSE IF value.type = "array" THEN value.items # <<>>
    ELSE DOMAIN value.members # {}

\* the record of the except branch, with the node's reasoning text
DefaultQuery(reasoning) ==
    [search_query |-> Str("Research on the related topic"),
     reasoning |-> Str(reasoning)]

\* process_output of FirstSearchNode and of ReflectionNode: result.get
\* raises AttributeError on what is no dict, a search_query that is false
\* raises ValueError, and every exception ends in the default record
QueryProcessOutput(output, default_reasoning) ==
    LET decoded == DecodeOutput(output)
        result == decoded.value
        query == Get(result.members, "search_query", Str(""))
        reasoning == Get(result.members, "reasoning", Str(""))
    IN IF ~decoded.ok THEN DefaultQuery(default_reasoning)
       ELSE IF result.type # "object" THEN DefaultQuery(default_reasoning)
       ELSE IF ~Truthy(query) THEN DefaultQuery(default_reasoning)
       ELSE [search_query |-> query, reasoning |-> reasoning]

\* FirstSearchNode.process_output
FirstSearchProcessOutput(output) ==
    QueryProcessOutput(output,
        "Due to parsing failure, using the default search query")

\* ReflectionNode.process_output
ReflectionProcessOutput(output) ==
    QueryProcessOutput(output,
        "Due to parsing failure, using the default reflection search query")

(***************************************************************************)
(* nodes/formatting_node.py: ReportFormattingNode                          *)
(***************************************************************************)
\* f"# Search Report: " of process_output
DefaultTitleLine == <<Heading(1), Word("Search Report:")>>

\* str.startswith("#") on a text
StartsWithHash(text) == text # <<>> /\ text[1].t \in {"heading", "tag"}

\* ReportFormattingNode.process_output: the reasoning and the fences are
\* removed; an empty rest raises ValueError("Empty output"), a rest that
\* does not start with '#' gets the default title in front of it
FormattingProcessOutput(output) ==
    LET cleaned_output == clean_markdown_tags(remove_reasoning_from_output(output))
    IN IF cleaned_output = <<>>
       THEN [raised |-> TRUE, error |-> "Empty output", text |-> <<>>]
       ELSE [raised |-> FALSE, error |-> "",
             text |-> IF StartsWithHash(cleaned_output) THEN cleaned_output
                      ELSE DefaultTitleLine \o cleaned_output]

\* ReportFormattingNode.validate_input on a list: every item has the keys
\* title and paragraph_latest_state
FormattingValidateInput(input_data) ==
    \A i \in DOMAIN input_data :
        {"title", "paragraph_latest_state"} \subseteq DOMAIN input_data[i]

\* ReportFormattingNode.run(input_data) when the model answers response:
\* the input is validated, the answer goes through process_output; the
\* input_data is read by validate_input and by the model only
FormattingRun(input_data, response) ==
    IF ~FormattingValidateInput(input_data)
    THEN [raised |-> TRUE, error |-> "Invalid input data", text |-> <<>>]
    ELSE FormattingProcessOutput(response)

\* the lines of a document: a heading, the rule "---", the empty line and
\* a line of content
HeadingLine(level, title) == <<Heading(level), Word(title)>>
RuleLine == <<Word("---")>>
EmptyLine == <<>>
ContentLine(content) == <<Word(content)>>

\* the lines format_report_manually adds for the entries from position i
\* on: f"## {title}", the content and a rule, for an entry with content
RECURSIVE ParagraphLines(_, _)
ParagraphLines(paragraphs_data, i) ==
    IF i > Len(paragraphs_data) THEN <<>>
    ELSE LET paragraph == paragraphs_data[i]
             title == Get(paragraph, "title", DefaultTitle(i - 1))
             content == Get(paragraph, "paragraph_latest_state", "")
         IN (IF content # ""
             THEN <<HeadingLine(2, title), EmptyLine, ContentLine(content),
                    EmptyLine, RuleLine, EmptyLine>>
             ELSE <<>>)
            \o ParagraphLines(paragraphs_data, i + 1)

\* ReportFormattingNode.format_report_manually: the report_lines that are
\* joined by "\n"
format_report_manually(paragraphs_data, report_title) ==
    <<HeadingLine(1, report_title), EmptyLine, RuleLine, EmptyLine>>
    \o ParagraphLines(paragraphs_data, 1)
    \o (IF Len(paragraphs_data) > 1
        THEN <<HeadingLine(1, "Conclusion"), EmptyLine, RuleLine, EmptyLine>>
        ELSE <<>>)

(***************************************************************************)
(* The collaborators                                                       *)
(***************************************************************************)
\* one result of the search provider (tools/search.py SearchResult.to_dict)
Result(j) ==
    [title |-> "rt", url |-> IF j = 1 THEN "u1" ELSE IF j = 2 THEN "u2" ELSE "u3",
     content |-> <<"r", "c">>, score |-> "0.9"]

\* tavily_search returns at most max_results results; none is a valid answer
SearchResults(max_results) ==
    {[j \in 1..n |-> Result(j)] : n \in 0..max_results}

(***************************************************************************)
(* The agent                                                               *)
(***************************************************************************)
VARIABLES
    config,            \* Config: max_reflections, max_search_results,
                       \* max_paragraphs, max_content_length
    state,             \* self.state
    pc,                \* position of the agent in research()
    total_paragraphs,  \* _process_paragraphs: total_paragraphs
    paragraph_index,   \* _process_paragraphs: i (0-based)
    reflection_pass,   \* _reflection_loop: reflection_iteration (loop variable)
    search_query,      \* the query the generator returned
    final_report,      \* _generate_final_report: final_report
    search_results,    \* the results the search returned, until the
                       \* summarizer was handed them
    node_input,        \* the input_data the agent handed to the node it
                       \* called last
    now,               \* the clock datetime.now() reads
    env                \* what the collaborators did so far: whether one
                       \* was called, whether no call failed and every
                       \* search returned the same number (size) of
                       \* results, and the message of the exception that
                       \* left the latest call of research(), if one
                       \* did

\* a call of one of the functions that take a text of the model and keep
\* no state: the function, its argument, and its result once it returned
VARIABLE call

vars == <<config, state, pc, total_paragraphs,
          paragraph_index, reflection_pass, search_query, final_report,
          search_results, node_input, now, env, call>>

\* what belongs to the agent
agent == <<config, state, pc, total_paragraphs,
           paragraph_index, reflection_pass, search_query, final_report,
           search_results, node_input, now, env>>

NoCall == [fn |-> "none", input |-> <<>>, returned |-> FALSE, output |-> <<>>]

\* fn is called with input
Call(fn, input) ==
    [fn |-> fn, input |-> input, returned |-> FALSE, output |-> <<>>]

\* the call after it returned output
Returned(output) == [call EXCEPT !.returned = TRUE, !.output = output]

locals == <<total_paragraphs, paragraph_index, reflection_pass, search_query,
            final_report, search_results, node_input>>

\* no node was called
NoInput == [node |-> "none", data |-> <<>>]

\* the node was handed data
Handed(node, data) == [node |-> node, data |-> data]

\* the section _process_paragraphs is working on
Current == paragraph_index + 1

Init ==
    /\ config \in [max_reflections : 0..MaxReflections,
                   max_search_results : 1..MaxSearchResults,
                   max_paragraphs : {DefaultMaxParagraphs},
                   max_content_length : {DefaultMaxContentLength}]
    /\ state = NewState(0)
    /\ pc = "idle"
    /\ total_paragraphs = 0
    /\ paragraph_index = 0
    /\ reflection_pass = 0
    /\ search_query = NoText
    /\ final_report = NoText
    /\ search_results = <<>>
    /\ node_input = NoInput
    /\ now = 0
    /\ env = [called |-> FALSE, uniform |-> TRUE, size |-> 0, error |-> ""]
    /\ call = NoCall

\* datetime.now() is read in this step: every reading is later than the
\* readings of the steps before it
Tick == now < MaxClock /\ now' = now + 1

\* the clock is read exactly when some object takes a timestamp
TickIf(reads) == IF reads THEN Tick ELSE now' = now

\* the record of the collaborators after a search that returned n results
Answered(n) ==
    IF ~env.called
    THEN [called |-> TRUE, uniform |-> TRUE, size |-> n, error |-> env.error]
    ELSE IF env.uniform /\ env.size = n THEN env
    ELSE [called |-> TRUE, uniform |-> FALSE, size |-> 0, error |-> env.error]

\* research() is left: the frame is gone, the state stays
Leave ==
    /\ pc' = "idle"
    /\ total_paragraphs' = 0
    /\ paragraph_index' = 0
    /\ reflection_pass' = 0
    /\ search_query' = NoText
    /\ final_report' = NoText
    /\ search_results' = <<>>
    /\ node_input' = NoInput

\* the exception e leaves research() (agent.py: except ... raise e)
RaiseError(e) ==
    /\ Leave
    /\ env' = [called |-> TRUE, uniform |-> FALSE, size |-> 0, error |-> e]

\* mutant of Raise: the failure is recorded and the call is made again
RaiseAndRetry ==
    /\ env' = [called |-> TRUE, uniform |-> FALSE, size |-> 0,
               error |-> "call failed"]
    /\ UNCHANGED <<pc, locals>>

\* a call of a collaborator fails and its exception leaves research()
Raise == RaiseError("call failed")

\* what ReportStructureNode.process_output returns for each query and
\* output of the model, as a table
PlannedStructure ==
    [out \in StructureOutputs, query \in Queries |->
        StructureProcessOutput(out, query)]

\* research(query, save_report) is called: _generate_report_structure runs
\* ReportStructureNode.mutate_state on self.state
GenerateReportStructure ==
    /\ pc = "idle"
    /\ \/ /\ Raise
          /\ UNCHANGED <<config, call, state, now>>
       \/ \E query \in Queries, out \in StructureOutputs :
            LET structure == PlannedStructure[out, query] IN
            /\ Len(state.paragraphs) + Len(structure) <= MaxSections
            /\ TickIf(structure # <<>>)
            /\ state' = StructureMutateState(state, query, structure, now + 1)
            /\ total_paragraphs' = Len(state'.paragraphs)
            /\ paragraph_index' = 0
            /\ pc' = IF total_paragraphs' = 0 THEN "generate_final_report"
                     ELSE "first_search_node"
            /\ env' = [env EXCEPT !.error = ""]
            /\ UNCHANGED <<config, call, reflection_pass, search_query, final_report,
                           search_results, node_input>>

\* the section's research record replaced by r
WithResearch(st, pos, r) == [st EXCEPT !.paragraphs[pos].research = r]

\* mutant of FirstSummaryNode.mutate_state: the summary is written to
\* every section
FirstSummaryMutateStateAll(st, index, summary, ts) ==
    update_timestamp(
        [st EXCEPT !.paragraphs =
            [j \in 1..Len(st.paragraphs) |->
                [st.paragraphs[j] EXCEPT !.research.latest_summary = summary]]],
        ts)

\* FirstSummaryNode.mutate_state after run() returned summary
FirstSummaryMutateState(st, index, summary, ts) ==
    update_timestamp(
        [st EXCEPT !.paragraphs[index + 1].research.latest_summary = summary],
        ts)

\* ReflectionSummaryNode.mutate_state after run() returned updated_summary
ReflectionSummaryMutateState(st, index, updated_summary, ts) ==
    update_timestamp(
        WithResearch(st, index + 1,
            increment_reflection_iteration(
                [st.paragraphs[index + 1].research
                    EXCEPT !.latest_summary = updated_summary])),
        ts)

\* _initial_search_and_summary: search_input
SearchInput(paragraph) ==
    [title |-> paragraph.title, content |-> paragraph.content]

\* _initial_search_and_summary: summary_input
SummaryInput(cfg, paragraph, query, results) ==
    [title |-> paragraph.title,
     content |-> paragraph.content,
     search_query |-> query,
     search_results |->
        format_search_results_for_prompt(results, cfg.max_search_results)]

\* mutant of reflection_input: the summary is the one the section was
\* created with
ReflectionInputStale(paragraph) ==
    [title |-> paragraph.title,
     content |-> paragraph.content,
     paragraph_latest_state |-> ""]

\* _reflection_loop: reflection_input
ReflectionInput(paragraph) ==
    [title |-> paragraph.title,
     content |-> paragraph.content,
     paragraph_latest_state |-> paragraph.research.latest_summary]

\* _reflection_loop: reflection_summary_input
ReflectionSummaryInput(cfg, paragraph, query, results) ==
    [title |-> paragraph.title,
     content |-> paragraph.content,
     search_query |-> query,
     search_results |->
        format_search_results_for_prompt(results, cfg.max_content_length),
     paragraph_latest_state |-> paragraph.research.latest_summary]

\* _generate_final_report: report_data
ReportDataOf(st) ==
    [j \in 1..Len(st.paragraphs) |->
        [title |-> st.paragraphs[j].title,
         paragraph_latest_state |-> st.paragraphs[j].research.latest_summary]]

\* where _process_paragraphs goes after _initial_search_and_summary(i) and
\* after each pass of the loop of _reflection_loop(i), k passes being done
AfterPass(k) ==
    IF k < config.max_reflections THEN "reflection_node" ELSE "mark_completed"

\* _initial_search_and_summary: first_search_node.run(search_input)
FirstSearchNodeRun ==
    /\ pc = "first_search_node"
    /\ \/ /\ Raise
          /\ UNCHANGED <<config, call, state, now>>
       \/ /\ search_query' \in SearchQueries
          /\ node_input' = Handed("first_search_node",
                                  SearchInput(state.paragraphs[Current]))
          /\ pc' = "initial_search"
          /\ UNCHANGED <<config, call, state, total_paragraphs,
                         paragraph_index, reflection_pass, final_report,
                         search_results, env, now>>

\* _initial_search_and_summary: tavily_search(...) and
\* paragraph.research.add_search_results(search_query, search_results)
InitialSearch ==
    /\ pc = "initial_search"
    /\ \/ /\ Raise
          /\ UNCHANGED <<config, call, state, now>>
       \/ \E results \in SearchResults(config.max_search_results) :
            /\ state' = WithResearch(state, Current,
                            add_search_results(state.paragraphs[Current].research,
                                               search_query, results, now + 1))
            /\ TickIf(results # <<>>)
            /\ env' = Answered(Len(results))
            /\ search_results' = results
            /\ pc' = "first_summary_node"
            /\ UNCHANGED <<config, call, total_paragraphs, paragraph_index,
                           reflection_pass, search_query, final_report,
                           node_input>>

\* _initial_search_and_summary: first_summary_node.mutate_state(...)
FirstSummaryNodeMutateState ==
    /\ pc = "first_summary_node"
    /\ \/ /\ Raise
          /\ UNCHANGED <<config, call, state, now>>
       \/ \E summary \in Summaries :
            /\ Tick
            /\ node_input' = Handed("first_summary_node",
                                    SummaryInput(config, state.paragraphs[Current],
                                                 search_query, search_results))
            /\ state' = FirstSummaryMutateState(state, paragraph_index, summary, now + 1)
            /\ search_results' = <<>>
            /\ reflection_pass' = 0
            /\ pc' = AfterPass(0)
            /\ UNCHANGED <<config, call, total_paragraphs,
                           paragraph_index, search_query, final_report, env>>

\* _reflection_loop: reflection_node.run(reflection_input)
ReflectionNodeRun ==
    /\ pc = "reflection_node"
    /\ \/ /\ Raise
          /\ UNCHANGED <<config, call, state, now>>
       \/ /\ search_query' \in SearchQueries
          /\ node_input' = Handed("reflection_node",
                                  ReflectionInput(state.paragraphs[Current]))
          /\ pc' = "reflection_search"
          /\ UNCHANGED <<config, call, state, total_paragraphs,
                         paragraph_index, reflection_pass, final_report,
                         search_results, env, now>>

\* _reflection_loop: tavily_search(...) and
\* paragraph.research.add_search_results(search_query, search_results)
ReflectionSearch ==
    /\ pc = "reflection_search"
    /\ \/ /\ Raise
          /\ UNCHANGED <<config, call, state, now>>
       \/ \E results \in SearchResults(config.max_search_results) :
            /\ state' = WithResearch(state, Current,
                            add_search_results(state.paragraphs[Current].research,
                                               search_query, results, now + 1))
            /\ TickIf(results # <<>>)
            /\ env' = Answered(Len(results))
            /\ search_results' = results
            /\ pc' = "reflection_summary_node"
            /\ UNCHANGED <<config, call, total_paragraphs, paragraph_index,
                           reflection_pass, search_query, final_report,
                           node_input>>

\* _reflection_loop: reflection_summary_node.mutate_state(...); the loop
\* variable advances
ReflectionSummaryNodeMutateState ==
    /\ pc = "reflection_summary_node"
    /\ \/ /\ Raise
          /\ UNCHANGED <<config, call, state, now>>
       \/ \E updated_summary \in Summaries :
            /\ Tick
            /\ node_input' = Handed("reflection_summary_node",
                                    ReflectionSummaryInput(config,
                                        state.paragraphs[Current],
                                        search_query, search_results))
            /\ state' = ReflectionSummaryMutateState(state, paragraph_index,
                                                     updated_summary, now + 1)
            /\ search_results' = <<>>
            /\ reflection_pass' = reflection_pass + 1
            /\ pc' = AfterPass(reflection_pass + 1)
            /\ UNCHANGED <<config, call, total_paragraphs,
                           paragraph_index, search_query, final_report, env>>

\* _process_paragraphs: self.state.paragraphs[i].research.mark_completed();
\* the loop over range(total_paragraphs) advances
MarkCompleted ==
    /\ pc = "mark_completed"
    /\ state' = WithResearch(state, Current,
                    mark_completed(state.paragraphs[Current].research))
    /\ paragraph_index' = paragraph_index + 1
    /\ reflection_pass' = 0
    /\ search_query' = NoText
    /\ pc' = IF paragraph_index + 1 < total_paragraphs THEN "first_search_node"
             ELSE "generate_final_report"
    /\ UNCHANGED <<config, call, total_paragraphs, final_report,
                   search_results, node_input, env, now>>

\* _generate_final_report: report_formatting_node.run(report_data) on the
\* title and latest_summary of every section (validate_input looks for the
\* two keys only); the call may fail, and process_output raises
\* ValueError("Empty output") when the cleaned model output is empty
ReportFormattingNodeRun ==
    /\ pc = "generate_final_report"
    /\ \/ /\ Raise
          /\ UNCHANGED <<config, call, state, now>>
       \/ /\ RaiseError("Empty output")
          /\ UNCHANGED <<config, call, state, now>>
       \/ /\ final_report' \in Reports
          /\ node_input' = Handed("report_formatting_node", ReportDataOf(state))
          /\ pc' = "store_final_report"
          /\ UNCHANGED <<config, call, state, total_paragraphs,
                         paragraph_index, reflection_pass, search_query,
                         search_results, env, now>>

\* _generate_final_report: self.state.final_report = final_report
StoreFinalReport ==
    /\ pc = "store_final_report"
    /\ state' = [state EXCEPT !.final_report = final_report]
    /\ pc' = "state_mark_completed"
    /\ UNCHANGED <<config, call, locals, env, now>>

\* _generate_final_report: self.state.mark_completed(); research() then
\* returns the report or saves it first (its argument save_report is read
\* only here)
StateMarkCompleted ==
    /\ pc = "state_mark_completed"
    /\ Tick
    /\ state' = state_mark_completed(state, now + 1)
    /\ \E save_report \in BOOLEAN :
          IF save_report
          THEN pc' = "save_report" /\ UNCHANGED locals
          ELSE Leave
    /\ UNCHANGED <<config, call, env>>

\* _save_report: the report file and the state document are written; a
\* failed write raises; research() returns
SaveReport ==
    /\ pc = "save_report"
    /\ \/ /\ Raise
          /\ UNCHANGED <<config, call, state, now>>
       \/ /\ Leave
          /\ UNCHANGED <<config, call, state, env, now>>

\* what every search of the earlier session returned
SessionResults == <<Result(1)>>

\* cfg has initially searched and reflected on passes times
RECURSIVE SessionResearch(_, _)
SessionResearch(cfg, passes) ==
    IF passes = 0
    THEN [add_search_results(NewResearch, "sq", SessionResults, 0)
            EXCEPT !.latest_summary = "s1"]
    ELSE increment_reflection_iteration(
            [add_search_results(SessionResearch(cfg, passes - 1), "sq",
                                SessionResults, 0)
                EXCEPT !.latest_summary = "s1"])

\* the State an earlier research("q1") of an agent with the same
\* configuration ended with: one section, completed
SessionState(cfg) ==
    LET planned == StructureMutateState(NewState(0), "q1",
                        <<[title |-> "A", content |-> "ca"]>>, 0)
        researched == WithResearch(planned, 1,
                        mark_completed(SessionResearch(cfg, cfg.max_reflections)))
    IN state_mark_completed([researched EXCEPT !.final_report = "# R"], 0)

\* the state documents load_state may be pointed at: the one an earlier
\* session wrote, and documents written by hand, in which keys may be absent
Documents ==
    {StateToDict(SessionState(config))}
        \cup {[paragraphs |-> <<[title |-> "A"], [title |-> "B"]>>],
              [paragraphs |-> <<[title |-> "A", order |-> 1]>>]}

\* load_state(filepath): State.load_from_file; the searches behind the
\* histories of a loaded document count as searches made so far
LoadState ==
    /\ pc = "idle"
    /\ Tick
    /\ \E document \in Documents :
        /\ state' = StateFromDict(document, now + 1)
        /\ env' = IF document = StateToDict(SessionState(config))
                  THEN Answered(Len(SessionResults))
                  ELSE env
    /\ UNCHANGED <<config, call, pc, locals>>

Next ==
    \/ GenerateReportStructure
    \/ FirstSearchNodeRun
    \/ InitialSearch
    \/ FirstSummaryNodeMutateState
    \/ ReflectionNodeRun
    \/ ReflectionSearch
    \/ ReflectionSummaryNodeMutateState
    \/ MarkCompleted
    \/ ReportFormattingNodeRun
    \/ StoreFinalReport
    \/ StateMarkCompleted
    \/ SaveReport
    \/ LoadState

Spec == Init /\ [][Next]_vars

(***************************************************************************)
(* The functions of the nodes and of utils/text_processing.py that keep no *)
(* state, each called on its own with a text the model may answer          *)
(***************************************************************************)
\* the tokens of the texts extract_clean_response is called with
TextTokens ==
    {LBrace, RBrace, LBracket, RBracket, NumTok(1), Word("w"),
     Label("reasoning"), FenceJson, Fence}

\* every text of at most MaxTextLen of these tokens
Texts == SeqsUpTo(TextTokens, MaxTextLen)

\* extract_clean_response(text) returns
ExtractCleanResponse ==
    /\ call.fn = "extract_clean_response"
    /\ ~call.returned
    /\ call' = Returned(extract_clean_response(call.input))
    /\ UNCHANGED agent

\* the entries of the lists ReportStructureNode.process_output is called
\* with: dicts whose title is absent, a text, empty, blank or a number and
\* whose content is absent, a text or empty, and an entry that is no dict
EntryTexts ==
    {<<LBrace>> \o title \o content \o <<RBrace>> :
        title \in {<<>>, <<Key("title"), StrTok("A")>>,
                   <<Key("title"), StrTok("")>>, <<Key("title"), StrTok(" ")>>,
                   <<Key("title"), NumTok(5)>>},
        content \in {<<>>, <<Key("content"), StrTok("ca")>>,
                     <<Key("content"), StrTok("")>>}}
        \cup {<<NumTok(5)>>}

\* what the model may put around its JSON: nothing, prose before it, or a
\* ```json fence
Wrappings ==
    {[lead |-> <<>>, trail |-> <<>>],
     [lead |-> <<Word("w")>>, trail |-> <<>>],
     [lead |-> <<FenceJson>>, trail |-> <<Fence>>]}

Wrapped(text, wrapping) == wrapping.lead \o text \o wrapping.trail

\* the texts ReportStructureNode.process_output is called with: lists of
\* entries, a dict, prose
StructureTexts ==
    {Wrapped(<<LBracket>> \o Flatten(entries) \o <<RBracket>>, wrapping) :
        entries \in SeqsUpTo(EntryTexts, MaxPlanned), wrapping \in Wrappings}
        \cup {Wrapped(entry, wrapping) :
                entry \in EntryTexts, wrapping \in Wrappings}
        \cup {<<>>, <<Word("w")>>}

\* ReportStructureNode(llm_client, query).process_output(output) returns
StructureNodeProcessOutput ==
    /\ call.fn = "ReportStructureNode.process_output"
    /\ ~call.returned
    /\ call' = Returned(StructureProcessOutput(call.input.output, call.input.query))
    /\ UNCHANGED agent

\* the texts the query generators' process_output is called with: dicts
\* whose search_query is absent, a text, empty, blank or a number and whose
\* reasoning is absent or a text; a list, a number, a string, prose
QueryTexts ==
    {Wrapped(<<LBrace>> \o query \o reasoning \o <<RBrace>>, wrapping) :
        query \in {<<>>, <<Key("search_query"), StrTok("sq")>>,
                          <<Key("search_query"), StrTok("")>>,
                          <<Key("search_query"), StrTok(" ")>>,
                          <<Key("search_query"), NumTok(5)>>,
                          <<Key("search_query"), NumTok(0)>>},
        reasoning \in {<<>>, <<Key("reasoning"), StrTok("why")>>},
        wrapping \in Wrappings}
        \cup {<<>>, <<Word("w")>>, <<NumTok(5)>>, <<StrTok("sq")>>,
              <<LBracket, StrTok("sq"), RBracket>>}

\* FirstSearchNode.process_output(output) returns
FirstSearchNodeProcessOutput ==
    /\ call.fn = "FirstSearchNode.process_output"
    /\ ~call.returned
    /\ call' = Returned(FirstSearchProcessOutput(call.input))
    /\ UNCHANGED agent

\* ReflectionNode.process_output(output) returns
ReflectionNodeProcessOutput ==
    /\ call.fn = "ReflectionNode.process_output"
    /\ ~call.returned
    /\ call' = Returned(ReflectionProcessOutput(call.input))
    /\ UNCHANGED agent

\* the tokens of the texts ReportFormattingNode.process_output is called
\* with: headings of two levels, a '#' glued to a word, prose, a bracket
\* and the fences of a markdown block
MarkdownTokens ==
    {Heading(1), Heading(2), Tag("w"), Word("w"), LBracket, FenceMarkdown,
     Fence}

MarkdownTexts == SeqsUpTo(MarkdownTokens, MaxTextLen)

\* ReportFormattingNode.process_output(output) returns or raises
FormattingNodeProcessOutput ==
    /\ call.fn = "ReportFormattingNode.process_output"
    /\ ~call.returned
    /\ call' = Returned(FormattingProcessOutput(call.input))
    /\ UNCHANGED agent

\* the entries of the lists format_report_manually is called with: dicts
\* with or without a title, whose summary is absent, empty or a text
SectionData ==
    {paragraph \in UNION {[keys -> {"", "A", "s1"}] :
                            keys \in SUBSET {"title", "paragraph_latest_state"}} :
        /\ Get(paragraph, "title", "A") \in {"A", ""}
        /\ Get(paragraph, "paragraph_latest_state", "") \in {"", "s1"}}

ParagraphsData == SeqsUpTo(SectionData, MaxSections)

\* ReportFormattingNode.format_report_manually(paragraphs_data,
\* report_title) returns
FormatReportManually ==
    /\ call.fn = "ReportFormattingNode.format_report_manually"
    /\ ~call.returned
    /\ call' = Returned(format_report_manually(call.input.paragraphs_data,
                                               call.input.report_title))
    /\ UNCHANGED agent

\* the contents truncate_content is called with: words of the letter a and
\* spaces
Contents == SeqsUpTo({"a", " "}, MaxContentLen)

\* truncate_content(content, max_length) returns
TruncateContent ==
    /\ call.fn = "truncate_content"
    /\ ~call.returned
    /\ call' = Returned(truncate_content(call.input.content,
                                         call.input.max_length))
    /\ UNCHANGED agent

\* the report_data ReportFormattingNode.run is called with: sections with a
\* title and a summary, one of them titled as a conclusion, and an item
\* without summary
ReportData ==
    SeqsUpTo({[title |-> "A", paragraph_latest_state |-> "s1"],
              [title |-> "Conclusion", paragraph_latest_state |-> "s1"],
              [title |-> "A"]}, MaxSections)

\* what the formatting model may answer: a title alone, a report with the
\* section A, the same with a conclusion, the same in a markdown fence,
\* prose, nothing
FormatterAnswers ==
    {<<Heading(1), Word("R")>>,
     <<Heading(1), Word("R"), Heading(2), Word("A"), Word("s1")>>,
     <<Heading(1), Word("R"), Heading(2), Word("A"), Word("s1"),
       Heading(2), Word("Conclusion"), Word("w")>>,
     <<FenceMarkdown, Heading(1), Word("R"), Heading(2), Word("A"), Word("s1"),
       Heading(2), Word("Conclusion"), Word("w"), Fence>>,
     <<Word("w")>>,
     <<>>}

\* ReportFormattingNode.run(input_data) returns or raises
FormattingNodeRun ==
    /\ call.fn = "ReportFormattingNode.run"
    /\ ~call.returned
    /\ call' = Returned(FormattingRun(call.input.input_data,
                                      call.input.response))
    /\ UNCHANGED agent

(***************************************************************************)
(* llms: BaseLLM, DeepSeekLLM, OpenAILLM                                   *)
(***************************************************************************)
\* the methods an instance of DeepSeekLLM or OpenAILLM has: those of the
\* class and those inherited from BaseLLM
LLMMethods ==
    {"get_default_model", "invoke", "get_model_info", "validata_response"}

\* str.strip() on a text of characters: the text between its first and
\* its last character that is not a blank
str_strip(s) ==
    LET kept == {i \in 1..Len(s) : s[i] # " "}
    IN  IF kept = {} THEN <<>>
        ELSE SubSeq(s, CHOOSE i \in kept : \A j \in kept : i <= j,
                       CHOOSE i \in kept : \A j \in kept : i >= j)

\* a message content: None or a text
NoneContent == [is_none |-> TRUE, text |-> <<>>]
TextContent(text) == [is_none |-> FALSE, text |-> text]

\* BaseLLM.validata_response
validata_response(response) ==
    IF response.is_none THEN <<>> ELSE str_strip(response.text)

\* what invoke ends with: a returned text or ValueError(error)
InvokeReturns(text) == [raised |-> FALSE, error |-> "", text |-> text]
InvokeRaises(error) == [raised |-> TRUE, error |-> error, text |-> <<>>]

\* self.method(content): AttributeError when the instance has no such
\* method, else what validata_response returns
CallMethod(method, content) ==
    IF method \in LLMMethods
    THEN InvokeReturns(validata_response(content))
    ELSE InvokeRaises("AttributeError")

\* the body of invoke of both providers, which differ in the name of the
\* method they call on the content and in the text of their ValueError:
\* every exception of the try block, the one of
\* client.chat.completions.create and the AttributeError, is raised again
\* as ValueError
Invoke(response, method, error) ==
    IF response.raises THEN InvokeRaises(error)
    ELSE IF response.choices # <<>> /\ response.choices[1].message.present
    THEN IF CallMethod(method, response.choices[1].message.content).raised
         THEN InvokeRaises(error)
         ELSE CallMethod(method, response.choices[1].message.content)
    ELSE InvokeReturns(<<>>)

\* DeepSeekLLM.invoke: return self.validate_response(content)
DeepSeekInvoke(response) ==
    Invoke(response, "validate_response", "Failed to invoke DeepSeek LLM")

\* OpenAILLM.invoke: return self.validata_response(content)
OpenAIInvoke(response) ==
    Invoke(response, "validata_response", "Failed to invoke OpenAI LLM")

\* what client.chat.completions.create does: it raises, or it returns a
\* response without choices, with a choice without message, or with a
\* message whose content is None or a text
ApiResponses ==
    {[raises |-> TRUE, choices |-> <<>>], [raises |-> FALSE, choices |-> <<>>]}
    \cup {[raises |-> FALSE, choices |-> <<[message |-> m]>>] :
            m \in {[present |-> FALSE, content |-> NoneContent],
                   [present |-> TRUE, content |-> NoneContent]}
                    \cup {[present |-> TRUE, content |-> TextContent(text)] :
                            text \in Contents}}

\* DeepSeekLLM.invoke(system_prompt, user_prompt) ends
DeepSeekLLMInvoke ==
    /\ call.fn = "DeepSeekLLM.invoke"
    /\ ~call.returned
    /\ call' = Returned(DeepSeekInvoke(call.input))
    /\ UNCHANGED agent

\* OpenAILLM.invoke(system_prompt, user_prompt) ends
OpenAILLMInvoke ==
    /\ call.fn = "OpenAILLM.invoke"
    /\ ~call.returned
    /\ call' = Returned(OpenAIInvoke(call.input))
    /\ UNCHANGED agent

\* the Config of the agent that is idle while a function is called
IdleConfig ==
    [max_reflections |-> 0, max_search_results |-> 1,
     max_paragraphs |-> DefaultMaxParagraphs,
     max_content_length |-> DefaultMaxContentLength]

\* the Configs the structure planner is called under
NodeConfigs ==
    {[IdleConfig EXCEPT !.max_paragraphs = n] : n \in 1..MaxPlanned}

\* the agent is idle and one function is called
NodeInit ==
    /\ state = NewState(0)
    /\ pc = "idle"
    /\ total_paragraphs = 0
    /\ paragraph_index = 0
    /\ reflection_pass = 0
    /\ search_query = NoText
    /\ final_report = NoText
    /\ search_results = <<>>
    /\ node_input = NoInput
    /\ now = 0
    /\ env = [called |-> FALSE, uniform |-> TRUE, size |-> 0, error |-> ""]
    /\ \/ \E text \in Texts : call = Call("extract_clean_response", text)
       \/ \E output \in StructureTexts, query \in Queries :
            call = Call("ReportStructureNode.process_output",
                        [output |-> output, query |-> query])
       \/ \E output \in QueryTexts, node \in {"FirstSearchNode", "ReflectionNode"} :
            call = Call(IF node = "FirstSearchNode"
                        THEN "FirstSearchNode.process_output"
                        ELSE "ReflectionNode.process_output", output)
       \/ \E output \in MarkdownTexts :
            call = Call("ReportFormattingNode.process_output", output)
       \/ \E content \in Contents, max_length \in 0..MaxLimit :
            call = Call("truncate_content",
                        [content |-> content, max_length |-> max_length])
       \/ \E input_data \in ReportData, response \in FormatterAnswers :
            call = Call("ReportFormattingNode.run",
                        [input_data |-> input_data, response |-> response])
       \/ \E response \in ApiResponses,
             fn \in {"DeepSeekLLM.invoke", "OpenAILLM.invoke"} :
            call = Call(fn, response)
       \/ \E paragraphs_data \in ParagraphsData :
            call = Call("ReportFormattingNode.format_report_manually",
                        [paragraphs_data |-> paragraphs_data,
                         report_title |-> "Search Report"])
    /\ config \in IF call.fn = "ReportStructureNode.process_output"
                  THEN NodeConfigs ELSE {IdleConfig}

NodeNext ==
    \/ ExtractCleanResponse
    \/ StructureNodeProcessOutput
    \/ FirstSearchNodeProcessOutput
    \/ ReflectionNodeProcessOutput
    \/ FormattingNodeProcessOutput
    \/ FormatReportManually
    \/ TruncateContent
    \/ FormattingNodeRun
    \/ DeepSeekLLMInvoke
    \/ OpenAILLMInvoke

NodeSpec == NodeInit /\ [][NodeNext]_vars


TypeOK ==
    /\ pc \in {"idle", "first_search_node",
               "initial_search", "first_summary_node", "reflection_node",
               "reflection_search", "reflection_summary_node", "mark_completed",
               "generate_final_report", "store_final_report",
               "state_mark_completed", "save_report"}
    /\ paragraph_index \in 0..MaxSections
    /\ Len(state.paragraphs) <= MaxSections

(***************************************************************************)
(* Vocabulary of the properties                                            *)
(***************************************************************************)
\* positions of research() at which section Current is being processed
SectionPCs ==
    {"first_search_node", "initial_search", "first_summary_node",
     "reflection_node", "reflection_search", "reflection_summary_node",
     "mark_completed"}

\* positions of research() after the loop of _process_paragraphs ended
FinalPCs ==
    {"generate_final_report", "store_final_report", "state_mark_completed",
     "save_report"}

\* a step of research(); load_state is the step taken from idle to idle,
\* and it puts another State in place
ResearchStep == pc # "idle" \/ pc' # "idle"

Positions(st) == 1..Len(st.paragraphs)

ResearchOf(st, pos) == st.paragraphs[pos].research

AllFinished(st) == \A pos \in Positions(st) : ResearchOf(st, pos).is_finished

IsPrefix(a, b) == Len(a) <= Len(b) /\ SubSeq(b, 1, Len(a)) = a

\* the sections as the planner laid them out: titles in order
SectionTitles(st) == [pos \in Positions(st) |-> st.paragraphs[pos].title]

\* _process_paragraphs has finished section pos in the current research()
ProcessedInThisRun(pos) ==
    /\ pc \in SectionPCs \cup FinalPCs
    /\ pos <= paragraph_index

(***************************************************************************)
(* C1: once _process_paragraphs has finished a section without an error,   *)
(* the section's reflection_iteration equals max_reflections and its       *)
(* is_finished is true.                                                    *)
(***************************************************************************)
C1_ProcessedSectionHasNReflections ==
    \A pos \in Positions(state) :
        ProcessedInThisRun(pos) =>
            /\ ResearchOf(state, pos).reflection_iteration = config.max_reflections
            /\ ResearchOf(state, pos).is_finished

(***************************************************************************)
(* C2: whatever research() and load_state() calls were made, every         *)
(* section's reflection_iteration is at most max_reflections; a completed  *)
(* reflection pass raises it by exactly one and no other step of           *)
(* research() (the initial search-and-summarize step included) changes it. *)
(***************************************************************************)
C2_ReflectionIterationBounded ==
    [][/\ \A pos \in Positions(state') :
            ResearchOf(state', pos).reflection_iteration <= config.max_reflections
       /\ ResearchStep =>
            \A pos \in Positions(state) :
                ResearchOf(state', pos).reflection_iteration =
                    ResearchOf(state, pos).reflection_iteration
                    + (IF /\ pc = "reflection_summary_node"
                          /\ pc' # "idle"
                          /\ pos = Current
                       THEN 1 ELSE 0)]_vars

(***************************************************************************)
(* C3: a section's is_finished goes from false to true only when all       *)
(* max_reflections passes of the section are done, never goes back to      *)
(* false, and mark_completed is never applied to a section that is         *)
(* already finished.                                                       *)
(***************************************************************************)
C3_FinishedExactlyOnce ==
    [][ResearchStep =>
        \A pos \in Positions(state) :
            LET before == ResearchOf(state, pos).is_finished
                after == ResearchOf(state', pos).is_finished
            IN /\ before => after
               /\ (~before /\ after) =>
                    /\ pc = "mark_completed"
                    /\ pos = Current
                    /\ reflection_pass = config.max_reflections
               /\ (pc = "mark_completed" /\ pos = Current) => ~before]_vars

(***************************************************************************)
(* C4: sections are processed in stored order: every step that generates a *)
(* query, searches, appends to the history or writes the summary of a      *)
(* section is taken when all sections before it are finished.              *)
(***************************************************************************)
C4_SectionsInStoredOrder ==
    [][ResearchStep =>
        \A pos \in Positions(state) :
            (\/ ResearchOf(state', pos) # ResearchOf(state, pos)
             \/ (pc \in SectionPCs /\ pos = Current))
            => \A before \in 1..(pos - 1) : ResearchOf(state, before).is_finished]_vars

\* the second section is being researched after the first was finished
C4_Witness ==
    /\ pc \in SectionPCs
    /\ paragraph_index = 1
    /\ Len(state.paragraphs) >= 2
    /\ ResearchOf(state, 1).is_finished
    /\ ResearchOf(state, 2).search_history # <<>>

(***************************************************************************)
(* C5: the formatter's output is stored only when every section is         *)
(* finished, and whenever state.is_completed is true every section is      *)
(* finished and final_report is not empty.                                 *)
(***************************************************************************)
C5_CompletedImpliesAllFinished ==
    /\ pc \in {"store_final_report", "state_mark_completed"} => AllFinished(state)
    /\ state.is_completed =>
        /\ AllFinished(state)
        /\ state.final_report # ""

(***************************************************************************)
(* C6: every step of research() leaves each section's search_history a     *)
(* prefix of what it is afterwards: records are appended, none is removed, *)
(* reordered or modified.                                                  *)
(***************************************************************************)
C6_SearchHistoryAppendOnly ==
    [][ResearchStep =>
        \A pos \in Positions(state) :
            /\ pos \in Positions(state')
            /\ IsPrefix(ResearchOf(state, pos).search_history,
                        ResearchOf(state', pos).search_history)]_vars

\* a history that holds the records of two different search calls
C6_Witness ==
    \E pos \in Positions(state) :
        LET h == ResearchOf(state, pos).search_history IN
        /\ Len(h) >= 2
        /\ h[1].timestamp # h[Len(h)].timestamp

(***************************************************************************)
(* C7: when every search call so far returned exactly R results and no     *)
(* call failed, every finished section has a search_history of length      *)
(* R * (1 + max_reflections).                                              *)
(***************************************************************************)
C7_HistoryLengthOfFinishedSection ==
    (env.called /\ env.uniform) =>
        \A pos \in Positions(state) :
            ResearchOf(state, pos).is_finished =>
                Len(ResearchOf(state, pos).search_history)
                    = env.size * (1 + config.max_reflections)

(***************************************************************************)
(* C8: once the structure planner has populated state.paragraphs (it sets  *)
(* state.query along with them), no step of research() changes the        *)
(* number, the titles or the order of the sections.                        *)
(***************************************************************************)
C8_SectionListFixed ==
    [][(ResearchStep /\ state.query # "" /\ state.paragraphs # <<>>) =>
        SectionTitles(state') = SectionTitles(state)]_vars

(***************************************************************************)
(* C9: the section at position i (0-based) of state.paragraphs has         *)
(* order = i, also after load_state.                                       *)
(***************************************************************************)
C9_OrderMatchesPosition ==
    \A pos \in Positions(state) : state.paragraphs[pos].order = pos - 1

(***************************************************************************)
(* C10: no step of research() decreases state.updated_at, and every step   *)
(* that mutates a section's research record advances it.                   *)
(***************************************************************************)
C10_UpdatedAtAdvances ==
    [][ResearchStep =>
        /\ state'.updated_at >= state.updated_at
        /\ (\E pos \in Positions(state) :
                ResearchOf(state', pos) # ResearchOf(state, pos))
            => state'.updated_at > state.updated_at]_vars

(***************************************************************************)
(* C18: when the formatter's model output fails validation (the cleaned    *)
(* output is empty) the fallback formatter takes over: the step of         *)
(* research() that formats the report does not end research() with the     *)
(* error "Empty output".                                                   *)
(***************************************************************************)
C18_FormattingFailureFallsBack ==
    [][pc = "generate_final_report" =>
        ~(pc' = "idle" /\ env'.error = "Empty output")]_vars

(***************************************************************************)
(* C20: the report formatter has run only on sections whose latest_summary *)
(* is not empty: when its output is about to be stored, no section has an  *)
(* empty latest_summary.                                                   *)
(***************************************************************************)
C20_FormatterInputHasSummaries ==
    pc = "store_final_report" =>
        \A pos \in Positions(state) :
            ResearchOf(state, pos).latest_summary # ""

(***************************************************************************)
(* C14: when extract_clean_response can extract no JSON value it returns   *)
(* the failure record (key "error"), and the record carries the text it    *)
(* was called with.                                                        *)
(***************************************************************************)
C14_FailureRecordCarriesInput ==
    (/\ call.fn = "extract_clean_response"
     /\ call.returned
     /\ call.output.type = "object"
     /\ "error" \in DOMAIN call.output.members)
    => call.output.members.raw_text = call.input

\* the JSON part of a text that may be wrapped in code fences
Unfenced(text) ==
    IF Len(text) >= 2 /\ text[1] = FenceJson /\ text[Len(text)] = Fence
    THEN SubSeq(text, 2, Len(text) - 1)
    ELSE text

\* prose: words, labels and the characters '{', '[', '}' and ']'
IsProse(text) ==
    \A i \in 1..Len(text) :
        text[i].t \in {"word", "label"}
            \/ text[i] \in {LBrace, RBrace, LBracket, RBracket}

\* text is prose followed by one well-formed JSON object or array which
\* starts at index k + 1 and may be wrapped in fences
IsJsonAfterProse(text, k) ==
    /\ IsProse(SubSeq(text, 1, k))
    /\ json_loads(Unfenced(SubSeq(text, k + 1, Len(text)))).ok
    /\ json_loads(Unfenced(SubSeq(text, k + 1, Len(text)))).value.type
        \in {"object", "array"}

(***************************************************************************)
(* C15: for a text that is one well-formed JSON object or array, possibly  *)
(* wrapped in code fences and possibly preceded by prose (which may hold   *)
(* '{', '[', '}' or ']'), extract_clean_response returns that JSON value.  *)
(***************************************************************************)
C15_WrappedJsonIsRecovered ==
    (call.fn = "extract_clean_response" /\ call.returned) =>
        \A k \in 0..Len(call.input) :
            IsJsonAfterProse(call.input, k) =>
                call.output =
                    json_loads(Unfenced(SubSeq(call.input, k + 1,
                                               Len(call.input)))).value

\* ReportStructureNode.process_output has returned
StructureReturned ==
    call.fn = "ReportStructureNode.process_output" /\ call.returned

(***************************************************************************)
(* C11: for a non-empty query and every text of the model, the list the    *)
(* structure planner returns has at least 1 and at most                    *)
(* config.max_paragraphs entries.                                          *)
(***************************************************************************)
C11_StructureLengthBounded ==
    (StructureReturned /\ call.input.query # "") =>
        /\ Len(call.output) >= 1
        /\ Len(call.output) <= config.max_paragraphs

(***************************************************************************)
(* C12: every entry the structure planner returns has a title and a        *)
(* content that are not empty after trimming.                              *)
(***************************************************************************)
C12_StructureEntriesNonEmpty ==
    StructureReturned =>
        \A i \in 1..Len(call.output) :
            /\ Strip(call.output[i].title) # ""
            /\ Strip(call.output[i].content) # ""

\* value is a {title, content} record: a dict with both keys, both texts
IsSectionRecord(value) ==
    /\ value.type = "object"
    /\ {"title", "content"} \subseteq DOMAIN value.members
    /\ value.members.title.type = "string"
    /\ value.members.content.type = "string"

\* output cannot be parsed, is no list, or is a list with an element that
\* is no {title, content} record
FailsStructureValidation(output) ==
    LET decoded == DecodeOutput(output) IN
    \/ ~decoded.ok
    \/ decoded.value.type # "array"
    \/ \E i \in 1..Len(decoded.value.items) :
            ~IsSectionRecord(decoded.value.items[i])

(***************************************************************************)
(* C13: for every model output that cannot be parsed or fails validation   *)
(* (no JSON, no list, or a list with an element that is no {title,         *)
(* content} record) the structure planner returns the two-entry skeleton   *)
(* "Overview", "Detailed Analysis" of the query.                           *)
(***************************************************************************)
C13_StructureFallsBackToSkeleton ==
    (StructureReturned /\ FailsStructureValidation(call.input.output)) =>
        call.output = FallbackStructure(call.input.query)

\* process_output of one of the two query generators has returned
QueryReturned ==
    /\ call.fn \in {"FirstSearchNode.process_output", "ReflectionNode.process_output"}
    /\ call.returned

\* output cannot be parsed, is no object, or has no or an empty search_query
LacksQuery(output) ==
    LET decoded == DecodeOutput(output) IN
    \/ ~decoded.ok
    \/ decoded.value.type # "object"
    \/ "search_query" \notin DOMAIN decoded.value.members
    \/ decoded.value.members.search_query = Str("")

\* the default record of the generator that was called
DefaultOfCall ==
    IF call.fn = "FirstSearchNode.process_output"
    THEN DefaultQuery("Due to parsing failure, using the default search query")
    ELSE DefaultQuery("Due to parsing failure, using the default reflection search query")

(***************************************************************************)
(* C16: for every model output, process_output of both query generators    *)
(* returns a record whose search_query is a non-empty string; it is the    *)
(* default record ("Research on the related topic" and a diagnostic        *)
(* reasoning) whenever the output cannot be parsed, is no object, or has   *)
(* no or an empty search_query.                                            *)
(***************************************************************************)
C16_QueryIsNonEmptyString ==
    QueryReturned =>
        /\ call.output.search_query.type = "string"
        /\ call.output.search_query.value # ""
        /\ LacksQuery(call.input) => call.output = DefaultOfCall

\* a formatter call that returned a document
FormatterReturned ==
    /\ call.fn = "ReportFormattingNode.process_output"
    /\ call.returned
    /\ ~call.output.raised

\* C17: every document the formatter returns opens with a top-level
\* heading, '#' and a space, whatever non-empty text the model answered:
\* also an answer that opens with '##' or with '#' and no space
C17_DocumentOpensWithTopHeading ==
    FormatterReturned => call.output.text[1] = Heading(1)

\* a call of the fallback formatter that returned
FallbackReturned ==
    /\ call.fn = "ReportFormattingNode.format_report_manually"
    /\ call.returned

IsHeadingLine(line, level) == line # <<>> /\ line[1] = Heading(level)

\* the headings the sections of the input stand for, in input order
TitleHeadings(paragraphs_data) ==
    [i \in 1..Len(paragraphs_data) |->
        HeadingLine(2, Get(paragraphs_data[i], "title", DefaultTitle(i - 1)))]

\* the heading lines of a document, in order
HeadingLines(document) ==
    SelectSeq(document, LAMBDA line : IsHeadingLine(line, 1) \/ IsHeadingLine(line, 2))

\* C19: the document of the fallback formatter starts with a top-level
\* heading, has after it exactly one heading per section of the input, in
\* input order, also for a section whose summary is empty, and then the
\* conclusion heading when the input has more than one section
C19_FallbackHasOneHeadingPerSection ==
    FallbackReturned =>
        LET paragraphs_data == call.input.paragraphs_data
            document == call.output
            headings == HeadingLines(document)
        IN /\ IsHeadingLine(document[1], 1)
           /\ SelectSeq(document, LAMBDA line : IsHeadingLine(line, 2))
                = TitleHeadings(paragraphs_data)
           /\ Len(paragraphs_data) > 1 =>
                headings[Len(headings)] = HeadingLine(1, "Conclusion")

(***************************************************************************)
(* Serialization                                                           *)
(***************************************************************************)
\* the readings of the clock at which a document may be loaded: the next
\* one and the last one
LoadTimes == {now + 1, MaxClock + 1}

\* the document holds every key to_dict writes, at every level
HasAllKeys(document) ==
    /\ DOMAIN document = {"query", "report_title", "paragraphs", "final_report",
                          "is_completed", "created_at", "updated_at"}
    /\ \A j \in DOMAIN document.paragraphs :
        LET p == document.paragraphs[j] IN
        /\ DOMAIN p = {"title", "content", "research", "order"}
        /\ DOMAIN p.research = {"search_history", "latest_summary",
                                "reflection_iteration", "is_finished"}
        /\ \A k \in DOMAIN p.research.search_history :
            DOMAIN p.research.search_history[k]
                = {"query", "url", "title", "content", "score", "timestamp"}

\* the state may be saved: by _save_report, or by a save_state that the
\* caller makes while research() is not running
Saveable == pc \in {"idle", "save_report"}

\* the documents on disk that hold every key, where load_state may be
\* called
PersistedDocuments ==
    IF pc = "idle" THEN {document \in Documents : HasAllKeys(document)}
    ELSE {}

\* C21: the state round-trips through its document: from_dict(to_dict(X))
\* is X field for field whenever it is loaded, and every document D with
\* all keys present comes back as D from to_dict(from_dict(D)): the
\* documents on disk, and with the first half the document to_dict(X) of
\* the state too
C21_StateRoundTrips ==
    Saveable =>
        \A ts \in LoadTimes :
            /\ StateFromDict(StateToDict(state), ts) = state
            /\ \A document \in PersistedDocuments :
                StateToDict(StateFromDict(document, ts)) = document

\* a completed state with a searched and reflected section round-trips when
\* loaded later than everything in it was written
C21_Witness ==
    /\ pc = "save_report"
    /\ state.is_completed
    /\ Len(state.paragraphs) > 0
    /\ state.paragraphs[1].research.search_history # <<>>
    /\ state.paragraphs[1].research.reflection_iteration > 0
    /\ state.updated_at < now + 1
    /\ StateFromDict(StateToDict(state), now + 1) = state

(***************************************************************************)
(* Truncation                                                              *)
(***************************************************************************)
TruncateReturned == call.fn = "truncate_content" /\ call.returned

\* C22: truncate_content(s, L) is s when s has at most L characters;
\* otherwise it is a prefix of s and the marker "...", at most L + 3
\* characters, the prefix ending at the last space of the first L
\* characters exactly when that space is in the final 20% of the window
\* (index >= 0.8 * L), and at L when no space is there
C22_TruncatesAtLateSpace ==
    TruncateReturned =>
        LET s == call.input.content
            L == call.input.max_length
            last_space == RFindSpace(SubSeq(s, 1, L), L)
            cut == IF 10 * last_space >= 8 * L /\ last_space >= 0
                   THEN last_space ELSE L
        IN IF Len(s) <= L THEN call.output = s
           ELSE /\ call.output = SubSeq(s, 1, cut) \o Ellipsis
                /\ Len(call.output) <= L + 3

(***************************************************************************)
(* Failures of the collaborators                                           *)
(***************************************************************************)
\* in this step a call of the text generation or of the search failed
CallFails == env.error = "" /\ env'.error = "call failed"

\* C23: no call is made again after it failed.  When a call fails while a
\* section is processed, research() is left with that step: no further
\* step of this or of a later section and no formatting follows, and the
\* step marks nothing: the section's is_finished, final_report and
\* is_completed (the whole state) are what they were
C23_FailedCallEndsResearch ==
    [][(pc \in SectionPCs /\ CallFails) =>
        /\ pc' = "idle"
        /\ state' = state]_vars

\* research("q1") was left by a failed call after the first section was
\* searched and before it was marked
C23_Witness ==
    /\ pc = "idle"
    /\ env.error = "call failed"
    /\ state.query = "q1"
    /\ Len(state.paragraphs) > 0
    /\ state.paragraphs[1].research.search_history # <<>>
    /\ ~state.paragraphs[1].research.is_finished
    /\ ~state.is_completed
    /\ state.final_report = ""

(***************************************************************************)
(* The final document                                                      *)
(***************************************************************************)
\* ReportFormattingNode.run returned a document
RunReturned ==
    /\ call.fn = "ReportFormattingNode.run"
    /\ call.returned
    /\ ~call.output.raised

\* the document has a heading line that reads title
HasHeading(document, title) ==
    \E i \in 1..(Len(document) - 1) :
        document[i].t = "heading" /\ document[i + 1] = Word(title)

\* C24: the document the formatter returns, which research() stores and
\* returns, has a heading for every section title, and a heading of a
\* conclusion when no section is titled as one, whatever the model answered
C24_DocumentHasSectionsAndConclusion ==
    RunReturned =>
        LET input_data == call.input.input_data
            document == call.output.text
        IN /\ \A i \in DOMAIN input_data :
                HasHeading(document, input_data[i].title)
           /\ (\A i \in DOMAIN input_data : input_data[i].title # "Conclusion")
                => HasHeading(document, "Conclusion")

(***************************************************************************)
(* What the nodes are handed                                               *)
(***************************************************************************)
\* the positions at which a summarizer is called
SummaryPCs == {"first_summary_node", "reflection_summary_node"}

\* in this step the summarizer at pc was handed its input
SummarizerHanded == pc \in SummaryPCs /\ node_input'.node = pc

\* C25: the evidence the initial and the reflective summarizer are handed
\* is, result by result, the content of the search result truncated to
\* config.max_content_length
C25_EvidenceTruncatedToContentLength ==
    [][SummarizerHanded =>
        node_input'.data.search_results
            = [j \in 1..Len(search_results) |->
                truncate_content(search_results[j].content,
                                 config.max_content_length)]]_vars

\* the research record of the section that is being processed, now and
\* after the step
CurrentResearch == state.paragraphs[Current].research
CurrentResearchAfter == state'.paragraphs[Current].research

OthersUntouched ==
    /\ Len(state'.paragraphs) = Len(state.paragraphs)
    /\ \A j \in Positions(state) \ {Current} :
            state'.paragraphs[j] = state.paragraphs[j]

\* C27: a step taken while section Current is processed (its initial step,
\* its reflection passes, its completion mark) leaves every other section
\* as it is: title, content, order and research record
C27_OtherSectionsUntouched ==
    [][(pc \in SectionPCs) => OthersUntouched]_vars

\* the second of two sections has been searched, summarized and is about
\* to be marked, and the first one holds another summary
C27_Witness ==
    /\ pc = "mark_completed"
    /\ Len(state.paragraphs) = 2
    /\ Current = 2
    /\ state.paragraphs[2].research.search_history # <<>>
    /\ state.paragraphs[1].research.is_finished
    /\ state.paragraphs[1].research.latest_summary
            # state.paragraphs[2].research.latest_summary

(***************************************************************************)
(* A reflection pass that fails                                            *)
(***************************************************************************)
\* positions of research() inside a reflection pass
ReflectionPCs ==
    {"reflection_node", "reflection_search", "reflection_summary_node"}

\* the research record of section Current as it was when the pass began:
\* before the merge step the search step of the pass has appended one
\* record per entry of search_results, and nothing else was written
AtPassStart ==
    IF pc = "reflection_summary_node"
    THEN [CurrentResearch EXCEPT
            !.search_history =
                SubSeq(@, 1, Len(@) - Len(search_results))]
    ELSE CurrentResearch

\* C28: when a step of a reflection pass fails (the query generation, the
\* search or the merge), the section's latest_summary, reflection_iteration
\* and search_history are what they were when that pass began
C28_FailedPassLeavesSectionAsBefore ==
    [][(pc \in ReflectionPCs /\ CallFails) =>
        /\ CurrentResearchAfter.latest_summary = AtPassStart.latest_summary
        /\ CurrentResearchAfter.reflection_iteration
                = AtPassStart.reflection_iteration
        /\ CurrentResearchAfter.search_history
                = AtPassStart.search_history]_vars

(***************************************************************************)
(* The progress view                                                       *)
(***************************************************************************)
\* the number of sections whose research record is marked finished
FinishedRecords(st) ==
    Cardinality({pos \in Positions(st) : ResearchOf(st, pos).is_finished})

\* C29: whenever state.is_completed is true, is_all_paragraphs_completed()
\* is true and get_progress_summary() reports completed_paragraphs =
\* total_paragraphs; and at any time completed_paragraphs is the number of
\* sections whose research.is_finished is true
C29_ProgressAgreesWithFlags ==
    /\ state.is_completed =>
            /\ is_all_paragraphs_completed(state)
            /\ get_progress_summary(state).completed_paragraphs
                    = get_progress_summary(state).total_paragraphs
    /\ get_progress_summary(state).completed_paragraphs
            = FinishedRecords(state)

(***************************************************************************)
(* The text generation providers                                           *)
(***************************************************************************)
\* invoke of one of the two providers has ended
InvokeReturned ==
    call.fn \in {"DeepSeekLLM.invoke", "OpenAILLM.invoke"} /\ call.returned

\* the API call succeeded and returned a message
MessageReturned ==
    /\ ~call.input.raises
    /\ call.input.choices # <<>>
    /\ call.input.choices[1].message.present

Blanks(n) == [i \in 1..n |-> " "]

\* text is content without the blanks around it (nothing, for None)
IsTrimmed(text, content) ==
    /\ text = <<>> \/ (text[1] # " " /\ text[Len(text)] # " ")
    /\ \E i, j \in 0..Len(content.text) :
            content.text = Blanks(i) \o text \o Blanks(j)

\* C30: with either provider, whenever the API call succeeds and returns a
\* message, invoke returns the content of the message trimmed and does not
\* end in an error
C30_InvokeReturnsTrimmedContent ==
    (InvokeReturned /\ MessageReturned) =>
        /\ ~call.output.raised
        /\ IsTrimmed(call.output.text, call.input.choices[1].message.content)

====
